---------------------------- MODULE Spec2Model ----------------------------
(***************************************************************************)
(* Model of src/disba/_srfdis.py: the surface-wave dispersion solver       *)
(* (srfdis, getsol, nevill, gtsolh, dltar4).                               *)
(*                                                                         *)
(* Arithmetic.  The program computes in float64.  The model computes in    *)
(* fixed point: a velocity v is the integer v / 1e-4, so the program's     *)
(* 0.01 is 100 units, and a product with a decimal constant is the exact   *)
(* rational product rounded toward minus infinity (\div).  Comparisons     *)
(* against scaled quantities (1e-6*c1, 0.01*ss1, 1e-10*|y[m]|) are written *)
(* in the equivalent integer form, which is exact on integers.             *)
(* Velocities are resolved to one unit.  nevill's tolerance 1e-6*c1 is     *)
(* below one unit for c1 under 10^6 units: there the model's bisection     *)
(* stops shrinking at a bracket one unit wide and the call ends at the     *)
(* iteration cap, where the program converges some twenty passes in; the   *)
(* returned velocity agrees to within one unit.  NevStarts holds a start   *)
(* of 3*10^6 units, where the tolerance is three units and the             *)
(* convergence exit is taken.                                              *)
(*                                                                         *)
(* dltar4.  The dispersion function is dense float algebra over the layer  *)
(* model.  The search code only reads its value at a trial velocity for a  *)
(* given period, so a period is represented by the function it induces on  *)
(* velocities: a record [z, s] with z the set of velocities, in half       *)
(* units, at which the function changes sign, and s its sign below every   *)
(* element of z.  An even q in z is a zero at the representable velocity   *)
(* q/2, where the function is exactly 0; an odd q is a sign change between *)
(* two neighbouring velocities, which no trial point hits.  The magnitude  *)
(* is the distance, in half units, to the nearest sign change.             *)
(***************************************************************************)
EXTENDS Integers, Sequences, FiniteSets

VARIABLES
    \* ---- nevill (one call) ----
    nv,        \* record of nevill's locals, see NevillInit
    nt,        \* the period (its dispersion function) nevill was called with
    errmodel,  \* float division by zero: "python" raises, "numpy" gives NaN
    \* ---- srfdis layer scan ----
    sc,        \* record of the scan loop's locals, see ScanInit
    \* ---- srfdis / getsol ----
    t, a, b, mode, dc, kmax,          \* inputs of srfdis
    c, cg, betmx, cc, cm, c1, clow,   \* locals of srfdis
    iq, k, del1st, ifirst,
    del1, idir, iret,                 \* locals of getsol
    pc,                               \* position in srfdis / getsol
    out,       \* history: out[m][k] the value srfdis stored for mode m, period k
    hand,      \* history: the last bracket getsol handed to nevill
    ncalls,    \* history: number of dltar4 evaluations so far
    ret,       \* history: the last return of getsol: [iq, k, iret, c1, calls]
    ev         \* history: what the last step did

vars == <<nv, nt, errmodel, sc, t, a, b, mode, dc, kmax, c, cg, betmx, cc, cm,
          c1, clow, iq, k, del1st, ifirst, del1, idir, iret, pc, out, hand,
          ncalls, ret, ev>>

nevillVars == <<nv, nt, errmodel>>
scanVars   == <<sc>>
srfdisVars == <<t, a, b, mode, dc, kmax, c, cg, betmx, cc, cm, c1, clow, iq, k,
                del1st, ifirst, del1, idir, iret, pc, out, hand, ncalls, ret, ev>>

-----------------------------------------------------------------------------
(* numpy.sign, numpy.abs, min, max *)

Sign(v) == IF v > 0 THEN 1 ELSE IF v < 0 THEN -1 ELSE 0

Abs(v) == IF v < 0 THEN -v ELSE v

Min(u, v) == IF v < u THEN v ELSE u

Max(u, v) == IF v > u THEN v ELSE u

SetMin(S) == CHOOSE u \in S : \A v \in S : u <= v

\* 0.5 * v in fixed point
Half(v) == v \div 2

-----------------------------------------------------------------------------
(* dltar4: value of the dispersion function of period p at velocity v.     *)
(* wvno = omega / v and omega = twopi / period fix the pair (v, p).        *)

Dltar4(v, p) ==
    LET below == Cardinality({q \in p.z : q < 2 * v})
        flip  == IF below % 2 = 0 THEN 1 ELSE -1
        dist  == IF p.z = {} THEN 64 ELSE SetMin({Abs(2 * v - q) : q \in p.z})
    IN  p.s * flip * dist

-----------------------------------------------------------------------------
(* nevill: hybrid bisection / Neville refinement of a bracketed root.      *)
(* x and y are the 20-entry zero-based buffers.  m = 0 stands for "m not   *)
(* yet assigned".  acc, nofb, p1, p2, upd, e1, e2 are history fields: the  *)
(* buffer indices touched by the last iteration, whether none of its       *)
(* fallback conditions held, the bracket before its update, whether it     *)
(* updated the bracket, and the function values nevill was entered with.   *)

NevCap == 100

NevBuf == 20

NevTable == 10

NevillInit(p, c1_, c2_, del1_, del2_) ==
    LET c3_ == Half(c1_ + c2_)
    IN  [c1 |-> c1_, c2 |-> c2_, del1 |-> del1_, del2 |-> del2_,
         c3 |-> c3_, del3 |-> Dltar4(c3_, p),
         nev |-> 1, nctrl |-> 1, m |-> 0,
         x |-> [i \in 0..(NevBuf - 1) |-> 0], y |-> [i \in 0..(NevBuf - 1) |-> 0],
         pc |-> "loop", nan |-> FALSE, ncall |-> 1,
         acc |-> {}, nofb |-> FALSE, p1 |-> c1_, p2 |-> c2_, upd |-> FALSE,
         e1 |-> del1_, e2 |-> del2_]

\* abs(denom) < 1.0e-10 * abs(ym), on integers
TinyDenom(denom, ym) == Abs(denom) <= ((Abs(ym) - 1) \div 100000) \div 100000

\* the loop "for kk in range(m)" from kk on; dz: a division by zero was made
RECURSIVE NevLoop(_, _, _, _, _)
NevLoop(x, y, m, kk, acc) ==
    IF kk >= m THEN [x |-> x, flag |-> 1, dz |-> FALSE, acc |-> acc]
    ELSE LET j     == m - kk
             denom == y[m] - y[j]
             acc1  == acc \cup {m, j}
         IN  IF TinyDenom(denom, y[m])
             THEN [x |-> x, flag |-> 0, dz |-> FALSE, acc |-> acc1]
             ELSE IF denom = 0
             THEN [x |-> x, flag |-> 1, dz |-> TRUE, acc |-> acc1 \cup {j - 1}]
             ELSE NevLoop([x EXCEPT ![j - 1] =
                              (-y[j - 1] * x[j] + y[m] * x[j - 1]) \div denom],
                          y, m, kk + 1, acc1 \cup {j - 1})

\* the test of the hard iteration cap
CapReached(nctrl) == nctrl >= NevCap

\* which side the trial point replaces
ReplaceUpper(del3, del1_) == Sign(del3) * Sign(del1_) < 0

\* the table index after a Neville step
NextM(m) == Min(m + 1, NevTable)

\* the plain bisection step that ends an iteration
Bisect(s, p, ncall_) ==
    LET mid == Half(s.c1 + s.c2)
    IN  [s EXCEPT !.c3 = mid, !.del3 = Dltar4(mid, p), !.nev = 1, !.m = 1,
                  !.ncall = ncall_ + 1]

\* one pass of the body of "while True", after a NaN has entered: every
\* comparison is false, sign(s13) != sign(s32) is true, so the pass takes
\* c1 = c3 and the bisection branch
NevillIterNan(s) ==
    LET n == s.nctrl + 1
    IN  IF CapReached(n) THEN [s EXCEPT !.nctrl = n, !.pc = "ret", !.acc = {},
                                        !.nofb = FALSE, !.upd = FALSE]
        ELSE [s EXCEPT !.nctrl = n, !.nev = 1, !.m = 1, !.ncall = s.ncall + 1,
                       !.acc = {}, !.nofb = FALSE, !.upd = FALSE]

\* one pass of the body of "while True"
NevillIter(s, p, em) ==
    LET n == s.nctrl + 1
    IN
    IF s.nan THEN NevillIterNan(s)
    ELSE IF CapReached(n)
    THEN [s EXCEPT !.nctrl = n, !.pc = "ret", !.acc = {}, !.nofb = FALSE,
                   !.upd = FALSE]
    ELSE
    LET outside == s.c3 < Min(s.c1, s.c2) \/ s.c3 > Max(s.c1, s.c2)
        nev1    == IF outside THEN 0 ELSE s.nev
        c3a     == IF outside THEN Half(s.c1 + s.c2) ELSE s.c3
        del3a   == IF outside THEN Dltar4(c3a, p) ELSE s.del3
        nc1     == IF outside THEN s.ncall + 1 ELSE s.ncall
        s13     == s.del1 - del3a
        s32     == del3a - s.del2
        upper   == ReplaceUpper(del3a, s.del1)
        s1      == [s EXCEPT !.nctrl = n, !.c3 = c3a, !.del3 = del3a,
                             !.c1 = IF upper THEN s.c1 ELSE c3a,
                             !.del1 = IF upper THEN s.del1 ELSE del3a,
                             !.c2 = IF upper THEN c3a ELSE s.c2,
                             !.del2 = IF upper THEN del3a ELSE s.del2,
                             !.ncall = nc1, !.p1 = s.c1, !.p2 = s.c2,
                             !.upd = TRUE, !.acc = {}, !.nofb = FALSE]
    IN
    IF Abs(s1.c1 - s1.c2) <= s1.c1 \div 1000000
    THEN [s1 EXCEPT !.pc = "ret", !.nev = nev1]
    ELSE
    LET nev2 == IF Sign(s13) # Sign(s32) THEN 0 ELSE nev1
        ss1  == Abs(s1.del1)
        ss2  == Abs(s1.del2)
        far  == ss1 > 100 * ss2 \/ ss2 > 100 * ss1
    IN
    IF far \/ nev2 = 0 THEN Bisect(s1, p, nc1)
    ELSE
    LET m0  == IF nev2 = 2 THEN s1.m ELSE 1
        x0  == IF nev2 = 2 THEN [s1.x EXCEPT ![s1.m - 1] = c3a]
               ELSE [s1.x EXCEPT ![0] = s1.c1, ![1] = s1.c2]
        y0  == IF nev2 = 2 THEN [s1.y EXCEPT ![s1.m - 1] = del3a]
               ELSE [s1.y EXCEPT ![0] = s1.del1, ![1] = s1.del2]
        a0  == IF nev2 = 2 THEN {s1.m - 1} ELSE {0, 1}
        r   == NevLoop(x0, y0, m0, 0, a0)
        s2  == [s1 EXCEPT !.x = r.x, !.y = y0, !.m = m0, !.acc = r.acc,
                          !.nofb = TRUE, !.nev = nev2]
    IN
    IF r.dz /\ em = "python" THEN [s2 EXCEPT !.pc = "raised"]
    ELSE IF r.dz
    THEN [s2 EXCEPT !.nan = TRUE, !.nev = 2, !.m = NextM(m0), !.ncall = nc1 + 1]
    ELSE IF r.flag = 1
    THEN [s2 EXCEPT !.c3 = r.x[0], !.del3 = Dltar4(r.x[0], p), !.nev = 2,
                    !.m = NextM(m0), !.ncall = nc1 + 1]
    ELSE [Bisect(s2, p, nc1) EXCEPT !.nofb = TRUE]

\* a whole call: the state in which nevill leaves its loop
RECURSIVE NevillRun(_, _, _)
NevillRun(s, p, em) ==
    IF s.pc # "loop" THEN s ELSE NevillRun(NevillIter(s, p, em), p, em)

-----------------------------------------------------------------------------
(* srfdis, lines 382-392: the scan for the extremal velocities.  a and b   *)
(* are one-based sequences here, layer i of the program is a[i + 1].       *)
(* jmn = -1 stands for "jmn not yet assigned".                             *)

\* 1.0e20, larger than every velocity
BetInf == 2000000000

\* 0.01 in velocity units
FluidTol == 100

ScanInit(a_, b_) ==
    [a |-> a_, b |-> b_, i |-> 0, betmx |-> -BetInf, betmn |-> BetInf,
     jmn |-> -1]

\* one pass of "for i in range(len(b))"
ScanStep(st) ==
    LET bi == st.b[st.i + 1]
        ai == st.a[st.i + 1]
        s1 == IF bi > FluidTol /\ bi < st.betmn
              THEN [st EXCEPT !.betmn = bi, !.jmn = st.i]
              ELSE IF bi < FluidTol /\ ai > st.betmn
              THEN [st EXCEPT !.betmn = ai, !.jmn = st.i]
              ELSE st
    IN  [s1 EXCEPT !.betmx = Max(st.betmx, bi), !.i = st.i + 1]

RECURSIVE ScanRun(_)
ScanRun(st) == IF st.i >= Len(st.b) THEN st ELSE ScanRun(ScanStep(st))

-----------------------------------------------------------------------------
(* gtsolh: five Newton steps on the half-space period equation.  gamma,    *)
(* kappa and the factors are dimensionless and kept scaled by Sc.          *)

Sc == 10000

\* floor of the square root of n, 0 <= lo*lo <= n < hi*hi
RECURSIVE ISqrt(_, _, _)
ISqrt(n, lo, hi) ==
    IF hi - lo <= 1 THEN lo
    ELSE LET mid == (lo + hi) \div 2
         IN  IF mid * mid <= n THEN ISqrt(n, mid, hi) ELSE ISqrt(n, lo, mid)

Sqrt(v) == ISqrt(v * Sc, 0, 2 * Sc)

GtsolhStep(a_, b_, c_) ==
    LET gamma == (b_ * Sc) \div a_
        kappa == (c_ * Sc) \div b_
        k2    == (kappa * kappa) \div Sc
        gk    == (gamma * kappa) \div Sc
        gk2   == (gk * gk) \div Sc
        fac1  == Sqrt(Sc - gk2)
        fac2  == Sqrt(Sc - k2)
        fr    == ((2 * Sc - k2) * (2 * Sc - k2)) \div Sc - (4 * fac1 * fac2) \div Sc
        g2k   == (((gamma * gamma) \div Sc) * kappa) \div Sc
        frp   == -((4 * (2 * Sc - k2) * kappa) \div Sc)
                 + (4 * fac2 * g2k) \div fac1
                 + (4 * fac1 * kappa) \div fac2
    IN  c_ - (fr * b_) \div frp

RECURSIVE GtsolhLoop(_, _, _, _)
GtsolhLoop(a_, b_, c_, n) ==
    IF n = 0 THEN c_ ELSE GtsolhLoop(a_, b_, GtsolhStep(a_, b_, c_), n - 1)

Gtsolh(a_, b_) == GtsolhLoop(a_, b_, (95 * b_) \div 100, 5)

-----------------------------------------------------------------------------
(* srfdis and getsol: the pieces of the mode / period loops.  c, cg and t  *)
(* are zero-based (functions on 0..kmax-1).                                *)

\* one * dc with one = 1.0e-2
One(dc_) == dc_ \div 100

\* onea * dc with onea = 1.5
Onea(dc_) == (3 * dc_) \div 2

\* a seeding that starts a higher mode below the previous mode's velocity
SeedPairBelow(iq_, ifirst_, k_, c_, c1_, cc_, cm_, dc_) ==
    IF ifirst_ = 1 /\ iq_ = 0 THEN [clow |-> cc_, c1 |-> cc_]
    ELSE IF ifirst_ = 1 THEN [clow |-> c1_, c1 |-> c_[0] - Onea(dc_)]
    ELSE IF iq_ > 0
    THEN [clow |-> c_[k_] - Onea(dc_), c1 |-> Max(c_[k_ - 1], c_[k_] - Onea(dc_))]
    ELSE [clow |-> cm_, c1 |-> c_[k_ - 1] - Onea(dc_)]

\* lines 413-424: the lower bound and the first trial velocity of a search
SeedPair(iq_, ifirst_, k_, c_, c1_, cc_, cm_, dc_) ==
    IF ifirst_ = 1 /\ iq_ = 0 THEN [clow |-> cc_, c1 |-> cc_]
    ELSE IF ifirst_ = 1 THEN [clow |-> c1_, c1 |-> c_[0] + One(dc_)]
    ELSE IF iq_ > 0
    THEN [clow |-> c_[k_] + One(dc_), c1 |-> Max(c_[k_ - 1], c_[k_] + One(dc_))]
    ELSE [clow |-> cm_, c1 |-> c_[k_ - 1] - Onea(dc_)]

\* line 324: the direction of the search
SearchDir(ifirst_, del1st_, del1_) ==
    IF ifirst_ # 1 /\ Sign(del1st_) * Sign(del1_) < 0 THEN -1 ELSE 1

\* line 345: the search has left the region of solutions
Exceeded(c1_, betmx_, dc_, cm_) == betmx_ + dc_ <= c1_ /\ c1_ < cm_

\* line 339: the status of a refined root
RootStatus(c1_, betmx_) == IF c1_ > betmx_ THEN -1 ELSE 1

\* a failure test that spares the first higher mode as well
IsFailureAbove1(iret_, iq_) == iret_ = -1 /\ iq_ > 1

\* line 431: a failed search that ends the mode
IsFailure(iret_, iq_) == iret_ = -1 /\ iq_ > 0

\* a zero fill that starts one entry late
ZeroAfter(cg_, k_) == [i \in DOMAIN cg_ |-> IF i > k_ THEN 0 ELSE cg_[i]]

\* lines 432-433
ZeroFrom(cg_, k_) == [i \in DOMAIN cg_ |-> IF i >= k_ THEN 0 ELSE cg_[i]]

-----------------------------------------------------------------------------
(* Values of the variables a specification does not use.                    *)

NoPeriod == [z |-> {}, s |-> 1]

NevillIdle ==
    /\ nv = NevillInit(NoPeriod, 0, 0, 0, 0)
    /\ nt = NoPeriod
    /\ errmodel = "python"

ScanIdle == sc = ScanInit(<<>>, <<>>)

SrfdisIdle ==
    /\ t = <<>> /\ a = <<>> /\ b = <<>> /\ mode = 0 /\ dc = 0 /\ kmax = 0
    /\ c = <<>> /\ cg = <<>> /\ betmx = 0 /\ cc = 0 /\ cm = 0 /\ c1 = 0
    /\ clow = 0 /\ iq = 0 /\ k = 0 /\ del1st = 0 /\ ifirst = 0
    /\ del1 = 0 /\ idir = 1 /\ iret = 0 /\ pc = "idle"
    /\ out = <<>> /\ hand = <<>> /\ ncalls = 0 /\ ret = <<>> /\ ev = "idle"

-----------------------------------------------------------------------------
(* Specification SpecNevill: one call of nevill on a bracket as getsol     *)
(* forms it (c2 = c1 + idir*dc, del1 and del2 the values there, of         *)
(* different numpy.sign), for every period function with at most MaxZeros  *)
(* zeros among NevZeros.                                                   *)

MaxZeros == 3

NevZeros == {461, 500, 550, 600, 6000075}

NevStarts == {200, 300, 3000000}

Periods(Z, n) ==
    {[z |-> S, s |-> sg] : S \in {S \in SUBSET Z : Cardinality(S) <= n},
                           sg \in {-1, 1}}

InitNevill ==
    /\ \E p \in Periods(NevZeros, MaxZeros), s0 \in NevStarts, dir \in {-1, 1} :
         LET e0 == s0 + dir * 100
         IN  /\ Sign(Dltar4(s0, p)) # Sign(Dltar4(e0, p))
             /\ nt = p
             /\ nv = NevillInit(p, s0, e0, Dltar4(s0, p), Dltar4(e0, p))
    /\ errmodel \in {"python", "numpy"}
    /\ ScanIdle
    /\ SrfdisIdle

NevillStep ==
    /\ nv.pc = "loop"
    /\ nv' = NevillIter(nv, nt, errmodel)
    /\ UNCHANGED <<nt, errmodel, scanVars, srfdisVars>>

NextNevill == NevillStep

SpecNevill == InitNevill /\ [][NextNevill]_vars

-----------------------------------------------------------------------------
(* Claims about nevill, checked under SpecNevill.                           *)

NevConverged == Abs(nv.c1 - nv.c2) <= nv.c1 \div 1000000

\* C7 (as claimed): after every iteration in which no fallback condition
\* held (trial point inside the bracket, slopes s13 and s32 of equal sign,
\* |del1| and |del2| within a factor 100, nev # 0), the next trial velocity
\* is the Neville value x[0] and the state is nev = 2.
C7_NevilleStepTaken ==
    (nv.pc = "loop" /\ nv.nofb /\ ~nv.nan) => (nv.nev = 2 /\ nv.c3 = nv.x[0])

\* the bounds of one call: the counter never passes the cap of 100 and the
\* loop is left when it reaches it; the number of dltar4 evaluations is at
\* most 2*nctrl - 1 (so at most 199); m, once assigned, stays in 1..10;
\* every index used on the buffers x and y lies in 0..19.
NevillBounds ==
    /\ nv.nctrl <= NevCap
    /\ (nv.pc = "loop" => nv.nctrl < NevCap)
    /\ nv.ncall <= 2 * nv.nctrl - 1
    /\ nv.ncall <= 2 * NevCap - 1
    /\ nv.m \in 0..NevTable
    /\ (nv.nctrl > 1 /\ nv.pc = "loop" => nv.m \in 1..NevTable)
    /\ nv.acc \subseteq 0..(NevBuf - 1)

\* C8 (as claimed): nevill terminates on every input within these bounds,
\* and its loop is left in one of two ways only, without an error: the
\* bracket has converged, or the counter has reached the cap of 100.
C8_NevillBounded ==
    /\ NevillBounds
    /\ nv.pc \in {"loop", "ret"}
    /\ (nv.pc = "ret" => (NevConverged \/ nv.nctrl = NevCap))

\* C9 (as claimed): entered with del1 and del2 of opposite sign, every
\* bracket update leaves the interval inside the previous one and never
\* makes del1 and del2 both strictly positive or both strictly negative.
C9_BracketKept ==
    (nv.upd /\ ~nv.nan /\ Sign(nv.e1) * Sign(nv.e2) < 0) =>
        /\ Min(nv.c1, nv.c2) >= Min(nv.p1, nv.p2)
        /\ Max(nv.c1, nv.c2) <= Max(nv.p1, nv.p2)
        /\ ~(nv.del1 > 0 /\ nv.del2 > 0)
        /\ ~(nv.del1 < 0 /\ nv.del2 < 0)

-----------------------------------------------------------------------------
(* Specification SpecScan: the layer scan of srfdis on every layer model   *)
(* of 1..MaxLayers layers drawn from LayerKinds (solid and fluid layers).  *)

MaxLayers == 3

LayerKinds == {[a |-> 400, b |-> 200], [a |-> 520, b |-> 300],
               [a |-> 150, b |-> 0], [a |-> 350, b |-> 0]}

LayerModels == UNION {[1..n -> LayerKinds] : n \in 1..MaxLayers}

InitScan ==
    /\ \E lm \in LayerModels :
         sc = ScanInit([i \in DOMAIN lm |-> lm[i].a], [i \in DOMAIN lm |-> lm[i].b])
    /\ NevillIdle
    /\ SrfdisIdle

ScanLayer ==
    /\ sc.i < Len(sc.b)
    /\ sc' = ScanStep(sc)
    /\ UNCHANGED <<nevillVars, srfdisVars>>

NextScan == ScanLayer

SpecScan == InitScan /\ [][NextScan]_vars

\* the effective shear velocity of layer i (zero-based) of the scanned model
EffVel(i) == IF sc.b[i + 1] > FluidTol THEN sc.b[i + 1] ELSE sc.a[i + 1]

\* C6 (as claimed): when the scan has seen every layer, jmn is the index of
\* a layer whose effective shear velocity (S-velocity if above 0.01, else
\* P-velocity) is minimal over all layers, and betmx is the largest
\* S-velocity; fluid layers and all-fluid models included.
C6_MinLayerSelected ==
    sc.i = Len(sc.b) /\ Len(sc.b) >= 1 =>
        /\ sc.jmn \in 0..(Len(sc.b) - 1)
        /\ \A i \in 0..(Len(sc.b) - 1) : EffVel(sc.jmn) <= EffVel(i)
        /\ \A i \in 1..Len(sc.b) : sc.betmx >= sc.b[i]
        /\ \E i \in 1..Len(sc.b) : sc.betmx = sc.b[i]

-----------------------------------------------------------------------------
(* Specification Spec: srfdis on a solid layer model, 1..MaxMode modes,    *)
(* 1..MaxPeriods periods, each period with one of the dispersion functions *)
(* SrfPeriods.  One step is one search set-up (lines 412-424 and 321-324), *)
(* one pass of getsol's loop, or the pass that returns together with what  *)
(* srfdis does with the result (lines 431-443 and the loop headers).       *)
(* getsol's loop need not end; a pass is taken only while the trial        *)
(* velocity stays within CMax.                                             *)

MaxMode == 3

MaxPeriods == 2

CMax == 700

DcSet == {100}

SrfModels == {<<[a |-> 520, b |-> 300]>>,
              <<[a |-> 400, b |-> 200], [a |-> 520, b |-> 300]>>}

SrfPeriods == {[z |-> {461, 561}, s |-> -1],
               [z |-> {461, 661}, s |-> 1],
               [z |-> {596, 646, 696}, s |-> -1],
               [z |-> {}, s |-> 1],
               [z |-> {461, 561, 581}, s |-> 1],
               [z |-> {521, 571}, s |-> -1],
               [z |-> {241}, s |-> 1]}

Init ==
    /\ \E lm \in SrfModels :
         /\ a = [i \in DOMAIN lm |-> lm[i].a]
         /\ b = [i \in DOMAIN lm |-> lm[i].b]
    /\ mode \in 1..MaxMode
    /\ kmax \in 1..MaxPeriods
    /\ t \in [0..(kmax - 1) -> SrfPeriods]
    /\ dc \in DcSet
    /\ c = [i \in 0..(kmax - 1) |-> 0]
    /\ cg = [i \in 0..(kmax - 1) |-> 0]
    /\ LET st == ScanRun(ScanInit(a, b))
       IN  /\ betmx = st.betmx
           /\ cc = (9 * Gtsolh(a[st.jmn + 1], b[st.jmn + 1])) \div 10
    /\ c1 = cc /\ cm = cc
    /\ clow = 0 /\ iq = 0 /\ k = 0 /\ del1st = 0 /\ ifirst = 0
    /\ del1 = 0 /\ idir = 1 /\ iret = 0
    /\ pc = "seed"
    /\ out = [m \in 0..(mode - 1) |-> [i \in 0..(kmax - 1) |-> 0]]
    /\ hand = <<>> /\ ncalls = 0 /\ ret = <<>> /\ ev = "init"
    /\ NevillIdle
    /\ ScanIdle

\* lines 412-424, the call of getsol and its lines 321-324
Seed ==
    /\ pc = "seed"
    /\ LET f  == IF k = 0 THEN 1 ELSE 0
           sp == SeedPair(iq, f, k, c, c1, cc, cm, dc)
           d1 == Dltar4(sp.c1, t[k])
       IN  /\ ifirst' = f
           /\ clow' = sp.clow
           /\ c1' = sp.c1
           /\ del1' = d1
           /\ del1st' = IF f = 1 THEN d1 ELSE del1st
           /\ idir' = SearchDir(f, del1st, d1)
    /\ ncalls' = ncalls + 1
    /\ pc' = "search"
    /\ ev' = "seed"
    /\ UNCHANGED <<t, a, b, mode, dc, kmax, c, cg, betmx, cc, cm, iq, k, iret,
                   out, hand, ret>>
    /\ UNCHANGED <<nevillVars, scanVars>>

\* lines 431-443 and the headers of the two loops, on getsol's return
Return(c1r, iretr, calls) ==
    /\ iret' = iretr
    /\ ncalls' = calls
    /\ ret' = [iq |-> iq, k |-> k, iret |-> iretr, c1 |-> c1r, calls |-> calls]
    /\ IF IsFailure(iretr, iq)
       THEN /\ cg' = ZeroFrom(cg, k)
            /\ ev' = "fail"
            /\ UNCHANGED <<c, out>>
            /\ IF iq = mode - 1
               THEN /\ pc' = "done"
                    /\ c1' = c1r
                    /\ UNCHANGED <<iq, k, del1st>>
               ELSE /\ pc' = "seed"
                    /\ c1' = 0
                    /\ iq' = iq + 1 /\ k' = 0 /\ del1st' = 0
       ELSE /\ c' = [c EXCEPT ![k] = c1r]
            /\ cg' = [cg EXCEPT ![k] = c1r]
            /\ out' = [out EXCEPT ![iq][k] = c1r]
            /\ ev' = "store"
            /\ c1' = 0
            /\ IF k + 1 < kmax
               THEN pc' = "seed" /\ k' = k + 1 /\ UNCHANGED <<iq, del1st>>
               ELSE IF iq + 1 < mode
               THEN pc' = "seed" /\ iq' = iq + 1 /\ k' = 0 /\ del1st' = 0
               ELSE pc' = "done" /\ UNCHANGED <<iq, k, del1st>>

\* lines 328-332: the step would reach clow, search upward from clow
Clamp ==
    /\ pc = "search"
    /\ c1 + idir * dc <= clow
    /\ idir' = 1
    /\ c1' = clow
    /\ ev' = "clamp"
    /\ UNCHANGED <<t, a, b, mode, dc, kmax, c, cg, betmx, cc, cm, clow, iq, k,
                   del1st, ifirst, del1, iret, pc, out, hand, ncalls, ret>>
    /\ UNCHANGED <<nevillVars, scanVars>>

\* lines 328, 334-337, 342-347: a step without a sign change
Step ==
    /\ pc = "search"
    /\ LET c2   == c1 + idir * dc
           del2 == Dltar4(c2, t[k])
       IN  /\ c2 > clow
           /\ c2 <= CMax
           /\ Sign(del1) = Sign(del2)
           /\ del1' = del2
           /\ IF Exceeded(c2, betmx, dc, cm)
              THEN Return(c2, -1, ncalls + 1)
              ELSE /\ c1' = c2
                   /\ ncalls' = ncalls + 1
                   /\ ev' = "step"
                   /\ UNCHANGED <<c, cg, iq, k, del1st, iret, pc, out, ret>>
    /\ UNCHANGED <<t, a, b, mode, dc, kmax, betmx, cc, cm, clow, ifirst, idir,
                   hand>>
    /\ UNCHANGED <<nevillVars, scanVars>>

\* lines 328, 334-340: a sign change, refined by nevill
Bracket ==
    /\ pc = "search"
    /\ LET c2   == c1 + idir * dc
           del2 == Dltar4(c2, t[k])
           r    == NevillRun(NevillInit(t[k], c1, c2, del1, del2), t[k], errmodel)
       IN  /\ c2 > clow
           /\ Sign(del1) # Sign(del2)
           /\ hand' = [c1 |-> c1, c2 |-> c2, del1 |-> del1, del2 |-> del2,
                       idir |-> idir, t |-> t[k]]
           /\ IF r.pc = "raised" \/ r.nan
              THEN /\ pc' = "nonfinite"
                   /\ ev' = "nonfinite"
                   /\ ncalls' = ncalls + 1 + r.ncall
                   /\ UNCHANGED <<c, cg, c1, iq, k, del1st, iret, out, ret>>
              ELSE Return(r.c3, RootStatus(r.c3, betmx), ncalls + 1 + r.ncall)
    /\ UNCHANGED <<t, a, b, mode, dc, kmax, betmx, cc, cm, clow, ifirst, del1,
                   idir>>
    /\ UNCHANGED <<nevillVars, scanVars>>

Next == Seed \/ Clamp \/ Step \/ Bracket

Spec == Init /\ [][Next]_vars

-----------------------------------------------------------------------------
(* Claims about srfdis and getsol, checked under Spec.                      *)

\* lines 436 and 445: srfdis returns cg, one row of kmax entries; the entry
\* the result holds for mode m at period i is cg[i]
ResultEntry(m, i) == cg[i]

C2_FailureZeroEveryMode ==
    (ev \in {"store", "fail"} /\ ret.iret = -1) =>
        \A i \in ret.k..(kmax - 1) : cg[i] = 0

\* C3: when getsol returns iret = -1 at period k in a mode m > 0, the output
\* entries k..K-1 are 0.0; if m is the last mode srfdis has returned and no
\* dltar4 evaluation follows the failing call; otherwise srfdis is at period
\* 0 of mode m+1.
C3_FailureHandling ==
    /\ (ev \in {"store", "fail"} /\ ret.iret = -1 /\ ret.iq > 0) =>
          /\ \A i \in ret.k..(kmax - 1) : cg[i] = 0
          /\ ret.iq = mode - 1 => pc = "done"
          /\ ret.iq < mode - 1 => (pc = "seed" /\ iq = ret.iq + 1 /\ k = 0)
    /\ pc = "done" => ncalls = ret.calls

\* C3 witness: the last mode (> 0) failed at a period after the first, with
\* earlier entries of that mode kept
C3_Witness ==
    /\ pc = "done" /\ ev = "fail" /\ ret.iret = -1
    /\ ret.iq = mode - 1 /\ ret.iq > 0 /\ ret.k > 0
    /\ cg[0] # 0 /\ cg[ret.k] = 0

\* C4: with two or more modes, at every period where mode 0 and mode 1 both
\* stored a nonzero velocity, the mode-0 velocity is <= the mode-1 velocity;
\* the search of mode 1 at period k never stands below the mode-0 velocity
\* at k plus 0.01*dc.
C4_ModeOrdering ==
    /\ mode >= 2 =>
          \A i \in 0..(kmax - 1) :
              (out[0][i] # 0 /\ out[1][i] # 0) => out[0][i] <= out[1][i]
    /\ (iq = 1 /\ pc = "search") => c1 >= out[0][k] + One(dc)

\* C4 witness: mode 0 and mode 1 both solved a period after the first
C4_Witness ==
    /\ mode >= 2 /\ kmax >= 2
    /\ out[0][1] # 0 /\ out[1][1] # 0 /\ out[0][1] < out[1][1]

\* C5 (as claimed): once the stepping search stands at or beyond betmx + dc
\* without a sign change, getsol has returned (iret = -1); the search is
\* never found still running there.
C5_ExceededReported ==
    (pc = "search" /\ ev = "step") => c1 < betmx + dc

\* C10 (as claimed): a bracket handed to nevill has del1 the function value
\* at its c1, del2 the value at its c2, and c2 = c1 + idir*dc.
C10_BracketValues ==
    hand # <<>> =>
        /\ hand.del1 = Dltar4(hand.c1, hand.t)
        /\ hand.del2 = Dltar4(hand.c2, hand.t)
        /\ hand.c2 = hand.c1 + hand.idir * dc

=============================================================================
